---- MODULE Spec2Model ----
(***************************************************************************)
(* BuildRecipePage (app/src/pages/BuildRecipePage.js): the page that       *)
(* builds a craftable token.  The model holds the page's observable        *)
(* fields, the lazy form initialisation, and every deploy() call as a      *)
(* process that is suspended at each await.  An action is one task of the  *)
(* JavaScript event loop, run to completion.                               *)
(***************************************************************************)
EXTENDS Integers, Sequences, FiniteSets, TLC

\* ---------------------------------------------------------------- bounds
MaxOps   == 3        \* what the user does on one page instance: deploy()
                     \* calls, inputs changed, rows added
MaxTicks == 3        \* clock ticks observed while the form is being set up

\* ------------------------------------------------------ program constants
minimumDelay == 800  \* ms
HttpOk       == 200

\* ------------------------------------------------------------- the world
Calls    == 1..MaxOps
TickMs   == minimumDelay \div 2
Statuses == {HttpOk, 500}
Undefined == << "undefined" >>
None      == "none"
\* An optional value is a sequence: << >> when absent (null, not sent, no
\* answer yet), << v >> when present.
Absent    == << >>
Some(v)   == << v >>

\* Strings the code takes apart are sequences of characters.
EmptyString == << >>
Images == { EmptyString, <<"d", ",", "A">> }
Names        == {"", "Sword"}
Symbols      == {"", "SWD"}
Descriptions == {"", "sharp"}
TokenInputs  == {"", "0xA"}
Amounts      == {"", "1"}
ScalarFields == {"name", "symbol", "description", "image"}

\* What the collaborators answer is opaque to the page: each request gets
\* an answer of its own, told apart by the call that made it.
ImageRef(c)    == << "img", c >>
MetadataURI(c) == << "uri", c >>
NewToken(c)    == << "0xT", c >>
canonicalTokensInfo == {"0xA", "0xB"}
currentAddress      == "0xUser"

VARIABLES
  deploying, playing, totallyDone, tokenAddress, form,  \* the page's observables
  crafty,                      \* store.domain.crafty is present
  isLoadingCanonicalTokens,    \* store.domain.isLoadingCanonicalTokens
  now, initPc, timerDue,       \* the clock (ms since construction), _lazyInitForm
  ops,                         \* what the user has done so far
  calls                        \* the deploy() calls

vars == << deploying, playing, totallyDone, tokenAddress, form, crafty,
           isLoadingCanonicalTokens, now, initPc, timerDue, ops, calls >>

page == << deploying, playing, totallyDone, tokenAddress, form >>

\* --------------------------------------------------------------- helpers
Max(a, b) == IF a >= b THEN a ELSE b

RECURSIVE Split(_, _)
\* String.prototype.split on a one-character separator: the pieces, in order.
Split(s, sep) ==
  IF \A i \in 1..Len(s) : s[i] # sep
  THEN << s >>
  ELSE LET k == CHOOSE i \in 1..Len(s) :
                  s[i] = sep /\ \A j \in 1..(i - 1) : s[j] # sep
       IN  << SubSeq(s, 1, k - 1) >> \o Split(SubSeq(s, k + 1, Len(s)), sep)

\* a[i] of a JavaScript array, i counted from 0; Absent is undefined.
At(a, i) == IF i + 1 \in 1..Len(a) THEN Some(a[i + 1]) ELSE Absent

\* uid(): a token no earlier row of this form carries.
Uid(inputs) == Len(inputs) + 1

buildRecipeForm ==
  [name |-> "", symbol |-> "", description |-> "", image |-> EmptyString,
   inputs |-> << >>]

addInput(f) ==
  [f EXCEPT !.inputs = Append(@, [id |-> Uid(@), address |-> "", amount |-> ""])]

\* An address list built back to front.
ingredientsReversed(values) ==
  [i \in 1..Len(values.inputs) |->
     values.inputs[Len(values.inputs) + 1 - i].address]

\* form.values() of line 81 and the two lists of lines 82-83.
ingredients(values) == [i \in 1..Len(values.inputs) |-> values.inputs[i].address]
amounts(values)     == [i \in 1..Len(values.inputs) |-> values.inputs[i].amount]

\* The bodies uploadMetadata posts (lines 111 and 117-122).
ThumbnailBody(image) == [imageBase64 |-> At(Split(image, ","), 1)]
MetadataBody(name, description, imageData, author) ==
  [name |-> name, description |-> description, image |-> imageData,
   author |-> author]

\* form.isValid: every row names a canonical token and a positive amount.
isValid(f) ==
  \A i \in 1..Len(f.inputs) :
     /\ f.inputs[i].address \in canonicalTokensInfo
     /\ f.inputs[i].amount \in Amounts \ {""}

\* form.values()
FormValues(f) ==
  [name |-> f.name, symbol |-> f.symbol, description |-> f.description,
   image |-> f.image,
   inputs |-> [i \in 1..Len(f.inputs) |->
                 [address |-> f.inputs[i].address, amount |-> f.inputs[i].amount]]]

\* A _canDeploy that forgets the crafty check.
canDeployAlways == TRUE

_canDeploy == crafty

\* ------------------------------------------------------- a deploy() call
\* pc: where the call is suspended.  values: what it read from the form.
\* thumbReq, metaReq, mintArgs: what it sent.  thumbRes, metaRes, minted:
\* what came back.  outcome: how it ended.  promise: the promise deploy()
\* returned to its caller.
IdleCall ==
  [pc |-> "idle", outcome |-> None, promise |-> None, values |-> Absent,
   thumbReq |-> Absent, thumbRes |-> Absent,
   metaReq |-> Absent, metaRes |-> Absent,
   mintArgs |-> Absent, minted |-> Absent]

Resolved(status, data) == [kind |-> "resolved", status |-> status, data |-> data]
Rejected == [kind |-> "rejected", status |-> 0, data |-> << >>]

InFlightPcs == {"awaitThumb", "awaitMeta", "awaitMint", "finally"}

\* The event loop is between tasks: no continuation is halfway through.
EventLoopIdle == \A c \in Calls : calls[c].pc # "finally"

\* The next deploy() call is the first one not made yet.
NextCall(c) ==
  /\ calls[c].pc = "idle"
  /\ \A d \in Calls : d < c => calls[d].pc # "idle"

Init ==
  /\ deploying = FALSE
  /\ playing = FALSE
  /\ totallyDone = FALSE
  /\ tokenAddress = Undefined
  /\ form = Absent
  /\ crafty \in BOOLEAN
  /\ isLoadingCanonicalTokens \in BOOLEAN
  /\ now = 0
  /\ initPc = "when"
  /\ timerDue = 0
  /\ ops = 0
  /\ calls = [c \in Calls |-> IdleCall]

\* ------------------------------------------------- the world around it
\* Time passes.  The continuation of the await and a timer that is due run
\* before more time passes, and once the form is there no code reads the
\* clock again.
Tick ==
  /\ EventLoopIdle
  /\ initPc # "done"
  /\ ~(initPc = "when" /\ ~isLoadingCanonicalTokens)
  /\ now < MaxTicks * TickMs
  /\ ~(initPc = "timer" /\ now >= timerDue)
  /\ now' = now + TickMs
  /\ UNCHANGED << page, crafty, isLoadingCanonicalTokens, initPc, timerDue,
                  ops, calls >>

CanonicalTokensLoaded ==
  /\ EventLoopIdle
  /\ isLoadingCanonicalTokens
  /\ isLoadingCanonicalTokens' = FALSE
  /\ UNCHANGED << page, crafty, now, initPc, timerDue, ops, calls >>

CraftyChanges ==
  /\ EventLoopIdle
  /\ crafty' = ~crafty
  /\ UNCHANGED << page, isLoadingCanonicalTokens, now, initPc, timerDue,
                  ops, calls >>

\* ------------------------------------------------------- _lazyInitForm
\* The timer armed with no delay at all.
WhenResolvedNoMinimumDelay ==
  /\ EventLoopIdle
  /\ initPc = "when"
  /\ ~isLoadingCanonicalTokens
  /\ timerDue' = now
  /\ initPc' = "timer"
  /\ UNCHANGED << page, crafty, isLoadingCanonicalTokens, now, ops, calls >>

\* Lines 39-54 from the await on: construction was at time 0.
WhenResolved ==
  /\ EventLoopIdle
  /\ initPc = "when"
  /\ ~isLoadingCanonicalTokens
  /\ LET start     == 0
         finished  == now
         diff      == finished - start
         timeLeft  == minimumDelay - diff
         restDelay == Max(0, timeLeft)
     IN  timerDue' = now + restDelay
  /\ initPc' = "timer"
  /\ UNCHANGED << page, crafty, isLoadingCanonicalTokens, now, ops, calls >>

\* The callback without the call of _addInput.
TimerFiresWithoutRow ==
  /\ EventLoopIdle
  /\ initPc = "timer"
  /\ now >= timerDue
  /\ form' = Some(buildRecipeForm)
  /\ initPc' = "done"
  /\ UNCHANGED << deploying, playing, totallyDone, tokenAddress, crafty,
                  isLoadingCanonicalTokens, now, timerDue, ops, calls >>

\* The setTimeout callback of lines 49-54.
TimerFires ==
  /\ EventLoopIdle
  /\ initPc = "timer"
  /\ now >= timerDue
  /\ form' = Some(addInput(buildRecipeForm))
  /\ initPc' = "done"
  /\ UNCHANGED << deploying, playing, totallyDone, tokenAddress, crafty,
                  isLoadingCanonicalTokens, now, timerDue, ops, calls >>

\* ------------------------------------------------------ the user's form
FieldValues(f) ==
  CASE f = "name"        -> Names
    [] f = "symbol"      -> Symbols
    [] f = "description" -> Descriptions
    [] f = "image"       -> Images

\* Typing into one of the Input components of lines 160-169.
EditField(f, v) ==
  /\ EventLoopIdle
  /\ form # Absent
  /\ ops < MaxOps
  /\ form[1][f] # v
  /\ form' = Some([form[1] EXCEPT ![f] = v])
  /\ ops' = ops + 1
  /\ UNCHANGED << deploying, playing, totallyDone, tokenAddress, crafty,
                  isLoadingCanonicalTokens, now, initPc, timerDue, calls >>

\* Choosing a token and an amount in an InputTokenField of lines 182-188.
EditRow(i, address, amount) ==
  /\ EventLoopIdle
  /\ form # Absent
  /\ ops < MaxOps
  /\ i \in 1..Len(form[1].inputs)
  /\ << form[1].inputs[i].address, form[1].inputs[i].amount >> # << address, amount >>
  /\ form' = Some([form[1] EXCEPT !.inputs[i].address = address,
                                  !.inputs[i].amount = amount])
  /\ ops' = ops + 1
  /\ UNCHANGED << deploying, playing, totallyDone, tokenAddress, crafty,
                  isLoadingCanonicalTokens, now, initPc, timerDue, calls >>

\* _addInput from the + Add Token button.
AddToken ==
  /\ EventLoopIdle
  /\ form # Absent
  /\ ops < MaxOps
  /\ form' = Some(addInput(form[1]))
  /\ ops' = ops + 1
  /\ UNCHANGED << deploying, playing, totallyDone, tokenAddress, crafty,
                  isLoadingCanonicalTokens, now, initPc, timerDue, calls >>

\* ----------------------------------------------------------- closeLoader
closeLoaderResetsDeploying ==
  /\ EventLoopIdle
  /\ playing' = FALSE
  /\ totallyDone' = TRUE
  /\ deploying' = FALSE
  /\ UNCHANGED << tokenAddress, form, crafty,
                  isLoadingCanonicalTokens, now, initPc, timerDue, ops, calls >>

closeLoader ==
  /\ EventLoopIdle
  /\ playing' = FALSE
  /\ totallyDone' = TRUE
  /\ UNCHANGED << deploying, tokenAddress, form, crafty,
                  isLoadingCanonicalTokens, now, initPc, timerDue, ops, calls >>

\* ---------------------------------------------------------------- deploy
others == << crafty, isLoadingCanonicalTokens, now, initPc, timerDue >>

\* A deploy() without its catch: the finally runs and the error goes on to
\* the caller.
FinallyWithoutCatch(c, threw, after) ==
  /\ deploying' = FALSE
  /\ calls' = [after EXCEPT ![c].pc = "done", ![c].outcome = threw,
                            ![c].promise = "rejected"]
  /\ UNCHANGED << playing, totallyDone, tokenAddress, form >>

\* A deploy() whose reset sits at the end of the try block, not in a finally.
CatchWithoutFinally(c, threw, after) ==
  /\ calls' = [after EXCEPT ![c].pc = "done", ![c].outcome = threw,
                            ![c].promise = "fulfilled"]
  /\ UNCHANGED << deploying, playing, totallyDone, tokenAddress, form >>

\* The catch of lines 98-99 and the finally of lines 100-104, for a call
\* that threw: the error is logged and the call ends.
CatchAndFinally(c, threw, after) ==
  /\ deploying' = FALSE
  /\ calls' = [after EXCEPT ![c].pc = "done", ![c].outcome = threw,
                            ![c].promise = "fulfilled"]
  /\ UNCHANGED << playing, totallyDone, tokenAddress, form >>

\* A deploy that reads the form after deploying = true but outside the try
\* block: on a null form the error escapes and nothing resets the flag.
deployReadingFormOutsideTry(c) ==
  /\ EventLoopIdle
  /\ NextCall(c)
  /\ ops < MaxOps
  /\ ops' = ops + 1
  /\ IF ~_canDeploy
       THEN /\ calls' = [calls EXCEPT ![c].pc = "done", ![c].outcome = "noop",
                                      ![c].promise = "fulfilled"]
            /\ UNCHANGED page
       ELSE IF form = Absent
       THEN /\ deploying' = TRUE
            /\ calls' = [calls EXCEPT ![c].pc = "done",
                                      ![c].outcome = "formError",
                                      ![c].promise = "rejected"]
            /\ UNCHANGED << playing, totallyDone, tokenAddress, form >>
       ELSE LET values == FormValues(form[1]) IN
            /\ deploying' = TRUE
            /\ calls' = [calls EXCEPT ![c].pc = "awaitThumb",
                                      ![c].promise = "pending",
                                      ![c].values = Some(values),
                                      ![c].thumbReq = Some(ThumbnailBody(values.image))]
            /\ UNCHANGED << playing, totallyDone, tokenAddress, form >>
  /\ UNCHANGED others

\* A deploy that opens the loader when the sequence starts.
deployOpeningLoader(c) ==
  /\ EventLoopIdle
  /\ NextCall(c)
  /\ ops < MaxOps
  /\ ops' = ops + 1
  /\ IF ~_canDeploy
       THEN /\ calls' = [calls EXCEPT ![c].pc = "done", ![c].outcome = "noop",
                                      ![c].promise = "fulfilled"]
            /\ UNCHANGED page
       ELSE IF form = Absent
       THEN CatchAndFinally(c, "formError", calls)
       ELSE LET values == FormValues(form[1]) IN
            /\ deploying' = TRUE
            /\ playing' = TRUE
            /\ calls' = [calls EXCEPT ![c].pc = "awaitThumb",
                                      ![c].promise = "pending",
                                      ![c].values = Some(values),
                                      ![c].thumbReq = Some(ThumbnailBody(values.image))]
            /\ UNCHANGED << totallyDone, tokenAddress, form >>
  /\ UNCHANGED others

\* A deploy that keeps the image reference an earlier call obtained and
\* skips its own thumbnail request when there is one.
deployReusingThumbnail(c) ==
  /\ EventLoopIdle
  /\ NextCall(c)
  /\ ops < MaxOps
  /\ ops' = ops + 1
  /\ IF ~_canDeploy
       THEN /\ calls' = [calls EXCEPT ![c].pc = "done", ![c].outcome = "noop",
                                      ![c].promise = "fulfilled"]
            /\ UNCHANGED page
       ELSE IF form = Absent
       THEN CatchAndFinally(c, "formError", calls)
       ELSE LET values == FormValues(form[1])
                cached == { e \in Calls :
                              /\ calls[e].thumbRes # Absent
                              /\ calls[e].thumbRes[1].kind = "resolved"
                              /\ calls[e].thumbRes[1].status = HttpOk }
            IN
            /\ deploying' = TRUE
            /\ IF cached = {}
                 THEN calls' = [calls EXCEPT ![c].pc = "awaitThumb",
                                   ![c].promise = "pending",
                                   ![c].values = Some(values),
                                   ![c].thumbReq = Some(ThumbnailBody(values.image))]
                 ELSE \E e \in cached :
                      calls' = [calls EXCEPT ![c].pc = "awaitMeta",
                                   ![c].promise = "pending",
                                   ![c].values = Some(values),
                                   ![c].metaReq = Some(MetadataBody(
                                      values.name, values.description,
                                      calls[e].thumbRes[1].data, currentAddress))]
            /\ UNCHANGED << playing, totallyDone, tokenAddress, form >>
  /\ UNCHANGED others

\* Lines 76-85 and, inside uploadMetadata, 108-111: the call up to its
\* first await.
deploy(c) ==
  /\ EventLoopIdle
  /\ NextCall(c)
  /\ ops < MaxOps
  /\ ops' = ops + 1
  /\ IF ~_canDeploy
       THEN /\ calls' = [calls EXCEPT ![c].pc = "done", ![c].outcome = "noop",
                                      ![c].promise = "fulfilled"]
            /\ UNCHANGED page
       ELSE IF form = Absent
       THEN \* this.form.values() throws on null after deploying = true
            CatchAndFinally(c, "formError", calls)
       ELSE LET values == FormValues(form[1]) IN
            /\ deploying' = TRUE
            /\ calls' = [calls EXCEPT ![c].pc = "awaitThumb",
                                      ![c].promise = "pending",
                                      ![c].values = Some(values),
                                      ![c].thumbReq = Some(ThumbnailBody(values.image))]
            /\ UNCHANGED << playing, totallyDone, tokenAddress, form >>
  /\ UNCHANGED others

\* An uploadMetadata without the status check of lines 112-114.
ThumbnailResolvedUnchecked(c, status, data) ==
  /\ EventLoopIdle
  /\ calls[c].pc = "awaitThumb"
  /\ LET v == calls[c].values[1] IN
     calls' = [calls EXCEPT ![c].thumbRes = Some(Resolved(status, data)),
                            ![c].pc = "awaitMeta",
                            ![c].metaReq = Some(MetadataBody(
                               v.name, v.description, data, currentAddress))]
  /\ UNCHANGED page
  /\ UNCHANGED << others, ops >>

\* An uploadMetadata whose image response is shared by the calls: the
\* metadata request carries the reference the first successful call got.
ThumbnailResolvedSharedResponse(c, status, data) ==
  /\ EventLoopIdle
  /\ calls[c].pc = "awaitThumb"
  /\ LET got == [calls EXCEPT ![c].thumbRes = Some(Resolved(status, data))]
         v   == calls[c].values[1]
         ok  == { e \in Calls : /\ got[e].thumbRes # Absent
                                /\ got[e].thumbRes[1].kind = "resolved"
                                /\ got[e].thumbRes[1].status = HttpOk }
         first == CHOOSE e \in ok : \A d \in ok : e <= d
     IN  IF status # HttpOk
           THEN CatchAndFinally(c, "thumbnailError", got)
           ELSE /\ calls' = [got EXCEPT ![c].pc = "awaitMeta",
                                        ![c].metaReq = Some(MetadataBody(
                                           v.name, v.description,
                                           got[first].thumbRes[1].data,
                                           currentAddress))]
                /\ UNCHANGED page
  /\ UNCHANGED << others, ops >>

\* Lines 111-122: the thumbnail answer arrives.
ThumbnailResolved(c, status, data) ==
  /\ EventLoopIdle
  /\ calls[c].pc = "awaitThumb"
  /\ LET got == [calls EXCEPT ![c].thumbRes = Some(Resolved(status, data))]
         v   == calls[c].values[1]
     IN  IF status # HttpOk
           THEN CatchAndFinally(c, "thumbnailError", got)
           ELSE /\ calls' = [got EXCEPT ![c].pc = "awaitMeta",
                                        ![c].metaReq = Some(MetadataBody(
                                           v.name, v.description, data, currentAddress))]
                /\ UNCHANGED page
  /\ UNCHANGED << others, ops >>

ThumbnailRejected(c) ==
  /\ EventLoopIdle
  /\ calls[c].pc = "awaitThumb"
  /\ CatchAndFinally(c, "thumbnailError", [calls EXCEPT ![c].thumbRes = Some(Rejected)])
  /\ UNCHANGED << others, ops >>

\* An uploadMetadata without the status check of lines 124-126.
MetadataResolvedUnchecked(c, status, data) ==
  /\ EventLoopIdle
  /\ calls[c].pc = "awaitMeta"
  /\ LET v == calls[c].values[1] IN
     calls' = [calls EXCEPT ![c].metaRes = Some(Resolved(status, data)),
                            ![c].pc = "awaitMint",
                            ![c].mintArgs = Some(<< v.name, v.symbol, data,
                                                   ingredients(v), amounts(v) >>)]
  /\ UNCHANGED page
  /\ UNCHANGED << others, ops >>

\* A deploy that reads the form again when it builds the mint arguments.
MetadataResolvedReadingTheForm(c, status, data) ==
  /\ EventLoopIdle
  /\ calls[c].pc = "awaitMeta"
  /\ LET got == [calls EXCEPT ![c].metaRes = Some(Resolved(status, data))]
         v   == FormValues(form[1])
     IN  IF status # HttpOk
           THEN CatchAndFinally(c, "metadataError", got)
           ELSE LET tokenMetadataURI == data IN
                /\ calls' = [got EXCEPT ![c].pc = "awaitMint",
                                        ![c].mintArgs = Some(<< v.name, v.symbol,
                                           tokenMetadataURI, ingredients(v), amounts(v) >>)]
                /\ UNCHANGED page
  /\ UNCHANGED << others, ops >>

\* Lines 124-128 and 85-93: the metadata answer arrives.
MetadataResolved(c, status, data) ==
  /\ EventLoopIdle
  /\ calls[c].pc = "awaitMeta"
  /\ LET got == [calls EXCEPT ![c].metaRes = Some(Resolved(status, data))]
         v   == calls[c].values[1]
     IN  IF status # HttpOk
           THEN CatchAndFinally(c, "metadataError", got)
           ELSE LET tokenMetadataURI == data IN
                /\ calls' = [got EXCEPT ![c].pc = "awaitMint",
                                        ![c].mintArgs = Some(<< v.name, v.symbol,
                                           tokenMetadataURI, ingredients(v), amounts(v) >>)]
                /\ UNCHANGED page
  /\ UNCHANGED << others, ops >>

MetadataRejected(c) ==
  /\ EventLoopIdle
  /\ calls[c].pc = "awaitMeta"
  /\ CatchAndFinally(c, "metadataError", [calls EXCEPT ![c].metaRes = Some(Rejected)])
  /\ UNCHANGED << others, ops >>

\* A success path that sets totallyDone and forgets line 95.
AddCraftableResolvedForgetsAddress(c, address) ==
  /\ EventLoopIdle
  /\ calls[c].pc = "awaitMint"
  /\ totallyDone' = TRUE
  /\ calls' = [calls EXCEPT ![c].pc = "finally", ![c].minted = Some(address)]
  /\ UNCHANGED << deploying, playing, tokenAddress, form >>
  /\ UNCHANGED << others, ops >>

\* Lines 94-97: addCraftable answered with the new token's address.
AddCraftableResolved(c, address) ==
  /\ EventLoopIdle
  /\ calls[c].pc = "awaitMint"
  /\ tokenAddress' = address
  /\ totallyDone' = TRUE
  /\ calls' = [calls EXCEPT ![c].pc = "finally", ![c].minted = Some(address)]
  /\ UNCHANGED << deploying, playing, form >>
  /\ UNCHANGED << others, ops >>

AddCraftableRejected(c) ==
  /\ EventLoopIdle
  /\ calls[c].pc = "awaitMint"
  /\ CatchAndFinally(c, "mintError", calls)
  /\ UNCHANGED << others, ops >>

\* Lines 100-104 after the success path: the same task goes on.
Finally(c) ==
  /\ calls[c].pc = "finally"
  /\ deploying' = FALSE
  /\ calls' = [calls EXCEPT ![c].pc = "done", ![c].outcome = "success",
                            ![c].promise = "fulfilled"]
  /\ UNCHANGED << playing, totallyDone, tokenAddress, form >>
  /\ UNCHANGED << others, ops >>

\* ---------------------------------------------------------------- render
Route(address) == << "/craft/", address >>

\* What render() hands to the components it draws: the Redirect of lines
\* 135-137, the BlockingLoader of 138-144, the SectionLoaders of 156-204
\* and the Deploy button of 209-215 (drawn only once the form exists).
Render ==
  [redirect       |-> IF totallyDone THEN Some(Route(tokenAddress)) ELSE Absent,
   loaderOpen     |-> playing,
   loaderCanClose |-> ~deploying,
   loading        |-> form = Absent,
   deployDisabled |-> IF form = Absent THEN TRUE
                      ELSE ~isValid(form[1]) \/ ~_canDeploy]

\* The Deploy button is on screen and enabled.
TriggerEnabled == ~Render.loading /\ ~Render.deployDisabled

\* ------------------------------------------------------------ the system
Environment ==
  \/ Tick
  \/ CanonicalTokensLoaded
  \/ CraftyChanges

LazyInitForm ==
  \/ WhenResolved
  \/ TimerFires

UserEdits ==
  \/ \E f \in ScalarFields : \E v \in FieldValues(f) : EditField(f, v)
  \/ \E i \in 1..(MaxOps + 1) : \E address \in TokenInputs : \E amount \in Amounts :
        EditRow(i, address, amount)
  \/ AddToken

Answers(c) ==
  \/ \E status \in Statuses : \E data \in {ImageRef(c)} : ThumbnailResolved(c, status, data)
  \/ ThumbnailRejected(c)
  \/ \E status \in Statuses : \E data \in {MetadataURI(c)} : MetadataResolved(c, status, data)
  \/ MetadataRejected(c)
  \/ \E address \in {NewToken(c)} : AddCraftableResolved(c, address)
  \/ AddCraftableRejected(c)
  \/ Finally(c)

\* Any method of the page may be called at any time.
Next ==
  \/ Environment
  \/ LazyInitForm
  \/ UserEdits
  \/ closeLoader
  \/ \E c \in Calls : deploy(c)
  \/ \E c \in Calls : Answers(c)

Spec == Init /\ [][Next]_vars

\* Every external call a deploy() awaits is answered in the end.
FairSpec == Spec /\ \A c \in Calls : WF_vars(Answers(c))

\* Normal use: deploy() starts only from the enabled Deploy button.  The
\* loader overlay asks to close only while it is open, and playing is never
\* true, so closeLoader has no step here.
ClickDeploy(c) == TriggerEnabled /\ deploy(c)

UINext ==
  \/ Environment
  \/ LazyInitForm
  \/ UserEdits
  \/ \E c \in Calls : ClickDeploy(c)
  \/ \E c \in Calls : Answers(c)

UISpec == Init /\ [][UINext]_vars

\* ================================================================ claims
InFlight(c)  == calls[c].pc \in InFlightPcs
Starts(c)    == calls[c].pc = "idle" /\ calls'[c].pc # "idle"
Completes(c) == calls[c].pc # "done" /\ calls'[c].pc = "done"

Answered200(r) == r # Absent /\ r[1].kind = "resolved" /\ r[1].status = HttpOk
AnsweredNot200(r) == r # Absent /\ ~(r[1].kind = "resolved" /\ r[1].status = HttpOk)

\* C1: in every reachable state, totallyDone implies that tokenAddress is
\* set and that deploying is false.
C1_DoneImpliesAddressAndIdle ==
  totallyDone => (tokenAddress # Undefined /\ ~deploying)

\* C2: a deploy() call whose thumbnail and metadata requests both returned
\* 200 and whose addCraftable returned an address a completes with
\* tokenAddress = a, deploying false and totallyDone true.
C2_SuccessRecordsTheMintedToken ==
  [][\A c \in Calls :
       ( /\ Completes(c)
         /\ Answered200(calls'[c].thumbRes)
         /\ Answered200(calls'[c].metaRes)
         /\ calls'[c].minted # Absent )
       => ( /\ tokenAddress' = calls'[c].minted[1]
            /\ ~deploying'
            /\ totallyDone' )]_vars

C2_Witness ==
  \E c \in Calls :
     /\ calls[c].pc = "done"
     /\ Answered200(calls[c].thumbRes) /\ Answered200(calls[c].metaRes)
     /\ calls[c].minted = Some(NewToken(c))

\* C3: a deploy() call whose thumbnail request does not return 200 makes no
\* metadata request and no mint invocation, changes totallyDone in none of
\* its steps, and completes with deploying false.
C3_ThumbnailFailureStopsTheCall ==
  [][\A c \in Calls :
       /\ AnsweredNot200(calls'[c].thumbRes)
            => ( /\ calls'[c].metaReq = Absent
                 /\ calls'[c].mintArgs = Absent
                 /\ calls'[c].minted = Absent
                 /\ calls'[c].pc = "done" )
       /\ (Starts(c) /\ calls'[c].pc = "awaitThumb") => totallyDone' = totallyDone
       /\ (calls[c].pc = "awaitThumb" /\ AnsweredNot200(calls'[c].thumbRes))
            => (totallyDone' = totallyDone /\ ~deploying')]_vars

C3_Witness ==
  \E c \in Calls :
     /\ calls[c].pc = "done"
     /\ calls[c].thumbRes = Some(Resolved(500, ImageRef(c)))
     /\ ~totallyDone /\ ~deploying

\* C4: a deploy() call whose metadata request does not return 200 never
\* invokes addCraftable, changes totallyDone in none of its steps, and
\* completes with deploying false.
C4_MetadataFailureStopsTheCall ==
  [][\A c \in Calls :
       /\ AnsweredNot200(calls'[c].metaRes)
            => ( /\ calls'[c].mintArgs = Absent
                 /\ calls'[c].minted = Absent
                 /\ calls'[c].pc = "done" )
       /\ (calls[c].pc = "awaitThumb" /\ calls'[c].pc = "awaitMeta")
            => totallyDone' = totallyDone
       /\ (calls[c].pc = "awaitMeta" /\ AnsweredNot200(calls'[c].metaRes))
            => (totallyDone' = totallyDone /\ ~deploying')]_vars

C4_Witness ==
  \E c \in Calls :
     /\ calls[c].pc = "done"
     /\ Answered200(calls[c].thumbRes)
     /\ AnsweredNot200(calls[c].metaRes)
     /\ ~totallyDone /\ ~deploying

\* C5: a failure of the image upload, the metadata upload or the mint is
\* caught inside deploy(): the call ends in the same task, its promise is
\* fulfilled, the step changes neither totallyDone nor tokenAddress, leaves
\* deploying false, and leaves the Deploy button as usable as it was.
UploadOrMintFailures == {"thumbnailError", "metadataError", "mintError"}

C5_FailuresAreSwallowed ==
  [][\A c \in Calls :
       /\ ( /\ InFlight(c)
            /\ \/ AnsweredNot200(calls'[c].thumbRes)
               \/ AnsweredNot200(calls'[c].metaRes) )
            => (Completes(c) /\ calls'[c].outcome \in UploadOrMintFailures)
       /\ (Completes(c) /\ calls'[c].outcome \in UploadOrMintFailures)
            => ( /\ calls'[c].promise = "fulfilled"
                 /\ totallyDone' = totallyDone
                 /\ tokenAddress' = tokenAddress
                 /\ Render'.redirect = Render.redirect
                 /\ ~deploying'
                 /\ _canDeploy' = _canDeploy
                 /\ TriggerEnabled' = TriggerEnabled )]_vars

C5_Witness ==
  \E c \in Calls :
     /\ calls[c].pc = "done"
     /\ calls[c].outcome = "mintError"
     /\ calls[c].promise = "fulfilled"
     /\ ~totallyDone /\ ~deploying /\ TriggerEnabled

\* C6: without the mint capability deploy() is a no-op: the page's fields
\* and the form are unchanged and the call sends nothing.
C6_NoCapabilityNoOp ==
  [][\A c \in Calls :
       (Starts(c) /\ ~crafty)
       => ( /\ UNCHANGED << deploying, playing, totallyDone, tokenAddress, form >>
            /\ calls'[c].pc = "done"
            /\ calls'[c].thumbReq = Absent
            /\ calls'[c].metaReq = Absent
            /\ calls'[c].mintArgs = Absent )]_vars

C6_Witness ==
  \E c \in Calls : calls[c].outcome = "noop" /\ ~crafty /\ form # Absent

\* C7: every deploy() call that set deploying = true sets it to false in
\* the end, whatever the outcome, when each call it awaits is answered.
C7_DeployingIsReset ==
  \A c \in Calls : InFlight(c) ~> (calls[c].pc = "done" /\ ~deploying)

C7_Witness ==
  \E c \in Calls :
     /\ calls[c].pc = "done"
     /\ calls[c].outcome \in UploadOrMintFailures \cup {"success"}
     /\ ~deploying

\* C8: whenever render issues the completion navigation, its target is
\* /craft/a for an address a that a mint of this page returned.
C8_RedirectGoesToAMintedToken ==
  Render.redirect # Absent
    => \E c \in Calls : /\ calls[c].minted # Absent
                        /\ Render.redirect = Some(Route(calls[c].minted[1]))

\* C9: while deploying is true the Deploy button is disabled, so that in
\* normal use at most one upload and mint sequence is in flight.
C9_TriggerDisabledWhileDeploying ==
  /\ deploying => Render.deployDisabled
  /\ Cardinality({c \in Calls : InFlight(c)}) <= 1

\* C10: deploying is true whenever some deploy() call is in flight, also
\* when calls overlap.
C10_DeployingWhileInFlight ==
  (\E c \in Calls : InFlight(c)) => deploying

\* C11: the address list and the amount list handed to addCraftable are as
\* long as the ingredient rows the call read, and their i-th elements are
\* the address and the amount of the i-th row, rows counted in the order
\* they were added.
C11_MintListsFollowTheRows ==
  [][\A c \in Calls :
       /\ (Starts(c) /\ calls'[c].values # Absent)
            => LET rows == form[1].inputs
                   read == calls'[c].values[1].inputs
               IN  /\ Len(read) = Len(rows)
                   /\ \A i \in 1..Len(rows) :
                        /\ rows[i].id = i
                        /\ read[i].address = rows[i].address
                        /\ read[i].amount = rows[i].amount
       /\ (calls[c].mintArgs = Absent /\ calls'[c].mintArgs # Absent)
            => LET rows == calls[c].values[1].inputs
                   args == calls'[c].mintArgs[1]
               IN  /\ Len(args[4]) = Len(rows)
                   /\ Len(args[5]) = Len(rows)
                   /\ \A i \in 1..Len(rows) :
                        /\ args[4][i] = rows[i].address
                        /\ args[5][i] = rows[i].amount]_vars

C11_Witness ==
  \E c \in Calls :
     /\ calls[c].mintArgs # Absent
     /\ calls[c].mintArgs[1][4] = << "0xA", "" >>
     /\ calls[c].mintArgs[1][5] = << "1", "" >>

\* C12: with the readiness flag resolving t ms after construction, the form
\* stays null until max(800, t) ms after construction at the earliest, and
\* it is never non-null while the flag has not resolved.  The await ends at
\* the instant the flag resolves, so t is the clock at that step.
C12_FormWaitsForReadinessAndMinimumDelay ==
  /\ [](form # Absent =>
          /\ initPc = "done"
          /\ ~isLoadingCanonicalTokens
          /\ now >= minimumDelay
          /\ now >= timerDue)
  /\ [][/\ (initPc = "when" /\ initPc' # "when")
             => /\ ~isLoadingCanonicalTokens
                /\ timerDue' = Max(minimumDelay, now)
                /\ form' = Absent
        /\ (form = Absent /\ form' # Absent)
             => /\ initPc = "timer"
                /\ ~isLoadingCanonicalTokens
                /\ now' = now
                /\ now >= timerDue]_vars

C12_Witness == form # Absent /\ now = minimumDelay /\ timerDue = minimumDelay

\* C13: the form is created once.  At the step it becomes non-null its
\* ingredient list has exactly one row; from then on it is never null again
\* and never replaced by a fresh form: the creating callback has run and
\* cannot run again, and the rows only keep their number or grow.
C13_FormCreatedOnceWithOneRow ==
  /\ []((form # Absent) <=> (initPc = "done"))
  /\ [][/\ (form = Absent /\ form' # Absent)
             => /\ Len(form'[1].inputs) = 1
                /\ form'[1].inputs[1].id = 1
        /\ (form # Absent)
             => /\ form' # Absent
                /\ initPc' = "done"
                /\ Len(form'[1].inputs) >= Len(form[1].inputs)
                /\ \A i \in 1..Len(form[1].inputs) :
                     form'[1].inputs[i].id = form[1].inputs[i].id]_vars

C13_Witness ==
  /\ form # Absent
  /\ ops = 0
  /\ Len(form[1].inputs) = 1

\* C14: the overlay is rendered open exactly while playing is true and
\* closable exactly while deploying is false, so the user can dismiss it
\* only in a state where deploying is false; a dismissal (a step that
\* changes playing or totallyDone and belongs to no deploy call) sets
\* playing = false and totallyDone = true and changes nothing else.
Dismissal ==
  /\ calls' = calls
  /\ (playing' # playing \/ totallyDone' # totallyDone)

FailedBefore(d) ==
  \E c \in Calls : c < d /\ calls[c].outcome \in UploadOrMintFailures

C15_RetryRedoesTheWholeSequence ==
  /\ [][\A d \in Calls :
          (Starts(d) /\ FailedBefore(d) /\ _canDeploy /\ form # Absent)
            => /\ calls'[d].pc = "awaitThumb"
               /\ calls'[d].thumbReq = Some(ThumbnailBody(form[1].image))
               /\ calls'[d].thumbRes = Absent
               /\ calls'[d].metaReq = Absent
               /\ calls'[d].metaRes = Absent
               /\ calls'[d].mintArgs = Absent
               /\ calls'[d].minted = Absent]_vars
  /\ [](\A d \in Calls : FailedBefore(d) =>
          /\ calls[d].metaReq # Absent
               => /\ calls[d].thumbReq # Absent
                  /\ Answered200(calls[d].thumbRes)
                  /\ calls[d].metaReq[1].image = calls[d].thumbRes[1].data
                  /\ \A c \in Calls \ {d} :
                       calls[c].thumbRes # Absent
                         => calls[c].thumbRes[1].data # calls[d].metaReq[1].image
          /\ calls[d].mintArgs # Absent
               => /\ calls[d].metaReq # Absent
                  /\ Answered200(calls[d].metaRes)
                  /\ calls[d].mintArgs[1][3] = calls[d].metaRes[1].data
                  /\ \A c \in Calls \ {d} :
                       calls[c].metaRes # Absent
                         => calls[c].metaRes[1].data # calls[d].mintArgs[1][3])

\* Call 1 got its image reference and failed at the metadata upload; call 2,
\* started after that (deploying is true again), has reached its mint.
C15_Witness ==
  /\ calls[1].outcome = "metadataError"
  /\ Answered200(calls[1].thumbRes)
  /\ calls[2].pc = "awaitMint"
  /\ calls[3].pc = "idle"
  /\ deploying

\* C16: within each deploy() call, also when calls overlap, the steps come
\* one after the other and are chained by data: one request is outstanding
\* at a time; the metadata request exists only after the call's own
\* thumbnail answer was 200 and carries that answer's image reference;
\* addCraftable is invoked only after the call's own metadata answer was
\* 200, with that answer's URI, and at most once: a request, once issued,
\* is never issued again or changed.
C16_StepsAreSequentialAndChained ==
  /\ [](\A c \in Calls :
          /\ calls[c].metaReq # Absent
               => /\ calls[c].thumbReq # Absent
                  /\ Answered200(calls[c].thumbRes)
                  /\ calls[c].metaReq[1].image = calls[c].thumbRes[1].data
          /\ calls[c].mintArgs # Absent
               => /\ calls[c].metaReq # Absent
                  /\ Answered200(calls[c].metaRes)
                  /\ calls[c].mintArgs[1][3] = calls[c].metaRes[1].data
          /\ calls[c].minted # Absent => calls[c].mintArgs # Absent
          /\ calls[c].pc = "awaitThumb"
               => /\ calls[c].thumbReq # Absent
                  /\ calls[c].thumbRes = Absent
                  /\ calls[c].metaReq = Absent
          /\ calls[c].pc = "awaitMeta"
               => /\ calls[c].metaRes = Absent
                  /\ calls[c].mintArgs = Absent
          /\ calls[c].pc = "awaitMint" => calls[c].minted = Absent)
  /\ [][\A c \in Calls :
          /\ calls[c].thumbReq # Absent => calls'[c].thumbReq = calls[c].thumbReq
          /\ calls[c].metaReq # Absent => calls'[c].metaReq = calls[c].metaReq
          /\ calls[c].mintArgs # Absent
               => /\ calls'[c].mintArgs = calls[c].mintArgs
                  /\ calls'[c].pc \in {"awaitMint", "finally", "done"}
          /\ calls[c].pc = "done" => calls'[c] = calls[c]]_vars

\* Two overlapping calls, the first at its mint, the second at its metadata
\* upload.
C16_Witness ==
  /\ calls[1].pc = "awaitMint"
  /\ calls[2].pc = "awaitMeta"
  /\ calls[1].mintArgs[1][3] = MetadataURI(1)
  /\ calls[2].metaReq[1].image = ImageRef(2)

\* C17: playing is false in every reachable state, whatever was called
\* (construction, form set-up, deploy, closeLoader, adding a row), so the
\* loader overlay is never rendered open, not even while a deploy sequence
\* is in flight.
C17_PlayingIsNeverTrue == ~playing /\ ~Render.loaderOpen

\* A sequence in flight at its mint, the overlay closed.
C17_Witness ==
  /\ deploying
  /\ \E c \in Calls : calls[c].pc = "awaitMint"
  /\ ~Render.loaderOpen

\* C18: deploy() reads the form once, in the step that starts the call and
\* before any await: what the call read is the form of that moment and
\* never changes, and the name, description and image it sends to the
\* metadata API and the name, symbol, address list and amount list it
\* passes to addCraftable are the ones it read, whatever was edited or
\* added to the form while the call was in flight.
C18_FormIsReadOnceAtTheStart ==
  /\ [][\A c \in Calls :
          /\ (Starts(c) /\ calls'[c].values # Absent)
               => calls'[c].values[1] = FormValues(form[1])
          /\ (~Starts(c)) => calls'[c].values = calls[c].values]_vars
  /\ [](\A c \in Calls :
          /\ calls[c].thumbReq # Absent
               => calls[c].thumbReq[1] = ThumbnailBody(calls[c].values[1].image)
          /\ calls[c].metaReq # Absent
               => /\ calls[c].metaReq[1].name = calls[c].values[1].name
                  /\ calls[c].metaReq[1].description
                       = calls[c].values[1].description
          /\ calls[c].mintArgs # Absent
               => LET read == calls[c].values[1]
                      args == calls[c].mintArgs[1]
                  IN  /\ args[1] = read.name
                      /\ args[2] = read.symbol
                      /\ Len(args[4]) = Len(read.inputs)
                      /\ Len(args[5]) = Len(read.inputs)
                      /\ \A i \in 1..Len(read.inputs) :
                           /\ args[4][i] = read.inputs[i].address
                           /\ args[5][i] = read.inputs[i].amount)

\* A call at its mint with the name and the single row it read, while the
\* form has since got another name and a second row.
C18_Witness ==
  \E c \in Calls :
     /\ calls[c].pc = "awaitMint"
     /\ calls[c].mintArgs[1][1] = ""
     /\ Len(calls[c].mintArgs[1][4]) = 1
     /\ form[1].name = "Sword"
     /\ Len(form[1].inputs) = 2

\* C19: a deploy() call made while the mint capability is there and the
\* form is still null fails inside its try block, in the task of the call:
\* it makes no thumbnail request, no metadata request and no mint, changes
\* neither totallyDone nor tokenAddress, its promise is fulfilled (the error
\* is swallowed), and deploying is false when the call has completed.
C19_DeployOnNullFormFailsQuietly ==
  /\ [][\A c \in Calls :
          (Starts(c) /\ _canDeploy /\ form = Absent)
            => /\ calls'[c].pc = "done"
               /\ calls'[c].outcome = "formError"
               /\ calls'[c].promise = "fulfilled"
               /\ calls'[c].thumbReq = Absent
               /\ calls'[c].metaReq = Absent
               /\ calls'[c].mintArgs = Absent
               /\ calls'[c].minted = Absent
               /\ UNCHANGED << totallyDone, tokenAddress, form, playing >>
               /\ ~deploying']_vars
  /\ [](\A c \in Calls :
          calls[c].outcome = "formError"
            => /\ calls[c].pc = "done"
               /\ calls[c].promise = "fulfilled"
               /\ calls[c].thumbReq = Absent
               /\ calls[c].metaReq = Absent
               /\ calls[c].mintArgs = Absent)

\* The call has been made on a null form and is over; the form is still
\* being set up.
C19_Witness ==
  /\ \E c \in Calls : calls[c].outcome = "formError"
  /\ form = Absent
  /\ crafty
  /\ ~deploying
  /\ ~totallyDone
  /\ tokenAddress = Undefined

====
